---- MODULE Spec2Model ----
(***************************************************************************)
(* Model of the decorator request-handling chain of                        *)
(* src/structural/decorator.ts:                                            *)
(*   Validation -> Authentication -> RateLimiting -> Caching -> Logging    *)
(*   -> BasicHttpHandler                                                   *)
(*                                                                         *)
(* Execution model (JavaScript async functions).  A call of handle runs    *)
(* synchronously from the outermost stage down to the first stage that     *)
(* returns; nothing can interleave with that run.  Every `await` then      *)
(* suspends its frame, and the frames of one call are resumed one per      *)
(* microtask, innermost first.  The microtask queue is first-in first-out, *)
(* so the in-flight calls are kept in a FIFO sequence mq; a step resumes   *)
(* the frame on top of the call at the head of mq and moves the call to    *)
(* the tail.  Date.now() is the variable clock.  Time may pass between any *)
(* two steps; it is observable only where the code reads the clock and     *)
(* uses the value (lines 142, 117 and 126), so the time that passed since  *)
(* the previous read is an input of the steps that read it.  One           *)
(* synchronous descent reads one value.                                    *)
(*                                                                         *)
(* The module also models, each under a specification of its own, class    *)
(* Singleton of src/creational/singleton.ts (SpecSingleton), class Order   *)
(* and class EventEmitter of src/behavioral/state.ts (SpecOrder,           *)
(* SpecEmitter), and CommandQueue with UserService of                      *)
(* src/behavioral/command.ts (SpecQueue).                                  *)
(***************************************************************************)
EXTENDS Integers, Sequences, FiniteSets, TLC

VARIABLES
    clock,      \* the value Date.now() returns
    cache,      \* CachingDecorator.cache    : Map<string, {response, timestamp}>
    requests,   \* RateLimitingDecorator.requests : Map<string, number[]>
    mq,         \* in-flight calls of handle, in microtask (FIFO) order
    calls,      \* history: one entry per call of handle, in arrival order
    fills,      \* history: one entry per response stored in the cache
    handler,    \* the handler object the callers hold (line 250)
    instance,   \* Singleton.instance (singleton.ts line 11)
    processes,  \* the Process objects created so far
    returns,    \* history: the calls made on Singleton and what they returned
    state,      \* Order.state of each order (state.ts line 111), by class name
    applied,    \* history: the operations called on each order, in order
    commands,   \* CommandQueue.commands (command.ts line 75)
    history,    \* CommandQueue.history  (command.ts line 76)
    users,      \* UserService.users     (command.ts line 105)
    running,    \* the calls of processQueue suspended at `await command.execute()`
    journal,    \* history: what the command queue did, in order
    observers,  \* EventEmitter.observers (state.ts line 222)
    events      \* history: the calls made on the EventEmitter, in order

vars == <<clock, cache, requests, mq, calls, fills, handler,
          instance, processes, returns, state, applied,
          commands, history, users, running, journal, observers, events>>

\* The state of the decorator chain and its histories.
chain == <<clock, cache, requests, mq, calls, fills, handler>>

\* The static state of class Singleton and its history.
singleton == <<instance, processes, returns>>

\* The objects of src/behavioral: the orders, the command queue with its
\* user service, and the event emitter.
orders == <<state, applied>>
queue == <<commands, history, users, running, journal>>
emitter == <<observers, events>>
behavioral == <<orders, queue, emitter>>

----------------------------------------------------------------------------
(* Program constants *)

ttl == 60000
windowMs == 60000
maxRequests == 5

(* Bounds of the model *)

MaxTicks == 2        \* the clock advances at most this many times
MaxInFlight == 2     \* calls of handle in flight at the same time
MaxCalls == 3        \* calls issued in a run of Spec
MaxBurst == 6        \* calls issued in a run of SpecBurst
MaxStages == 4       \* handler objects in a chain composed in SpecBuild
MaxUses == 2         \* calls issued in a run of SpecBuild
MaxOps == 7          \* calls on Singleton in a run of SpecSingleton
MaxCommands == 3     \* commands added in a run of SpecQueue
MaxRuns == 2         \* calls of processQueue in a run of SpecQueue
MaxProcessing == 1   \* calls of processQueue in flight at the same time
MaxUndos == 2        \* calls of undoLast in a run of SpecQueue
MaxEmitterOps == 6   \* calls on the EventEmitter in a run of SpecEmitter
MaxOrderOps == 4     \* operations called on one order in a run of SpecOrder

\* The clock advances in steps of half the window, so that ages below,
\* exactly at and above the 60000 ms boundaries all occur.
TickMs == windowMs \div 2

\* The time that may have passed since the clock was last read.
Elapsed == {d \in {k * TickMs : k \in 0..MaxTicks} : clock + d <= MaxTicks * TickMs}

----------------------------------------------------------------------------
(* Values *)

undefined == "undefined"

\* JavaScript truthiness of the optional fields: undefined and '' are falsy.
Falsy(v) == v \in {undefined, ""}

\* interface HttpRequest, with the optional headers object flattened.
HttpRequest(m, p, b, a, c) ==
    [method |-> m, path |-> p, body |-> b, authorization |-> a, clientId |-> c]

R400 == [status |-> 400, body |-> [error |-> "Request body is required"]]
R401 == [status |-> 401, body |-> [error |-> "Unauthorized"]]
R429 == [status |-> 429, body |-> [error |-> "Too many requests"]]

\* No handler object: null or undefined passed where a handler is expected.
null == <<>>

\* The TypeError of `this.handler.handle` on a missing handler.  The promise
\* of handle is rejected with it: it stands where the response would be,
\* and its status is no HTTP status.
TypeError == [status |-> 0, body |-> [error |-> "TypeError"]]

EmptyMap == [k \in {} |-> 0]

\* Map.set(k, v)
MapSet(map, k, v) == [x \in DOMAIN map \cup {k} |-> IF x = k THEN v ELSE map[x]]

----------------------------------------------------------------------------
(* The synchronous part of each stage's handle.                            *)
(* s is what the run has seen and done so far:                             *)
(*   s.now     the clock read of the run                                   *)
(*   s.cache, s.requests  the two tables                                   *)
(*   s.trace   the stages that observed the request, in order              *)
(*   s.cached  what the cache lookup found, nothing before it              *)
(* The result adds the response and the stack of frames suspended at an    *)
(* await, innermost first.                                                 *)

Observe(s, ev) == [s EXCEPT !.trace = Append(@, ev)]

\* `return <response>` of a stage that does not delegate.
Returned(s, response) ==
    [response |-> response, stack |-> <<>>, trace |-> s.trace,
     cache |-> s.cache, requests |-> s.requests, cached |-> s.cached]

\* A handler object is the sequence of the stages from itself down to the
\* base handler: Head(this) is its class, Tail(this) the handler it wraps.
\* new <stage>(wrapped): the constructor stores what it is given (line 62).
New(stage, wrapped) == <<stage>> \o wrapped

\* handler.handle(request), dispatched on the class of the handler.
RECURSIVE handle(_, _, _)

\* The inherited handle calling the wrapped handler a second time.
HttpHandlerDecorator_twice(this, request, s) ==
    LET r1 == handle(Tail(this), request, s)
        r2 == handle(Tail(this), request,
                     [s EXCEPT !.trace = r1.trace, !.requests = r1.requests])
    IN  [r2 EXCEPT !.stack = @ \o <<Head(this) \o ".super", Head(this)>>]

\* `await super.handle(request)`: HttpHandlerDecorator.handle runs
\* `return await this.handler.handle(request)`.  The wrapped handler runs
\* first; its caller is left suspended in two frames, the inherited handle
\* and the stage's own.  Without a wrapped handler the inherited handle
\* throws, and the stage's own frame awaits a rejected promise.
HttpHandlerDecorator(this, request, s) ==
    IF Tail(this) = null
    THEN [Returned(s, TypeError) EXCEPT !.stack = <<Head(this)>>]
    ELSE LET r == handle(Tail(this), request, s)
         IN  [r EXCEPT !.stack = @ \o <<Head(this) \o ".super", Head(this)>>]

\* The response without the request's body.
BasicHttpHandler_noEcho(request, s) ==
    Returned(Observe(s, "base"),
             [status |-> 200,
              body |-> [message |-> "Success", data |-> undefined]])

BasicHttpHandler(request, s) ==
    Returned(Observe(s, "base"),
             [status |-> 200,
              body |-> [message |-> "Success", data |-> request.body]])

LoggingDecorator(this, request, s) ==
    HttpHandlerDecorator(this, request, Observe(s, "logging.start"))

\* The key made of the body as well.
cacheKeyOf_withBody(request) ==
    request.method \o ":" \o request.path \o ":" \o request.body

\* The key made of the path alone.
cacheKeyOf_pathOnly(request) == request.path

cacheKeyOf(request) == request.method \o ":" \o request.path

\* this.cache.get(cacheKey): the entry, or nothing (undefined).  An optional
\* value is the set of at most one element.
CacheGet(cch, cacheKey) ==
    IF cacheKey \in DOMAIN cch THEN {cch[cacheKey]} ELSE {}

\* { response, timestamp: Date.now() }
Stored(response, now) == [response |-> response, timestamp |-> now]

\* The comparison written with <= instead of <.
CacheFresh_inclusive(cached, now) ==
    \E entry \in cached : now - entry.timestamp <= ttl

\* cached && Date.now() - cached.timestamp < this.ttl
CacheFresh(cached, now) ==
    \E entry \in cached : now - entry.timestamp < ttl

\* A hit stamping the entry anew.
CachingDecorator_refresh(this, request, s0) ==
    LET cached == CacheGet(s0.cache, cacheKeyOf(request))
        s == [Observe(s0, "caching") EXCEPT !.cached = cached]
        entry == CHOOSE e \in cached : TRUE
    IN  IF CacheFresh(cached, s.now)
        THEN Returned([s EXCEPT !.cache =
                          MapSet(s.cache, cacheKeyOf(request),
                                 Stored(entry.response, s.now))],
                      entry.response)
        ELSE HttpHandlerDecorator(this, request, s)

CachingDecorator(this, request, s0) ==
    LET cached == CacheGet(s0.cache, cacheKeyOf(request))
        s == [Observe(s0, "caching") EXCEPT !.cached = cached]
    IN  IF CacheFresh(cached, s.now)
        THEN Returned(s, (CHOOSE entry \in cached : TRUE).response)
        ELSE HttpHandlerDecorator(this, request, s)

\* One bucket for all clients.
clientIdOf_shared(request) == "anonymous"

clientIdOf(request) ==
    IF Falsy(request.clientId) THEN "anonymous" ELSE request.clientId

\* clientRequests.filter(time => now - time < this.windowMs)
RecentRequests(clientRequests, now) ==
    SelectSeq(clientRequests, LAMBDA time : now - time < windowMs)

\* The comparison written with > instead of >=.
RateLimited_offByOne(recentRequests) == Len(recentRequests) > maxRequests

\* recentRequests.length >= this.maxRequests
RateLimited(recentRequests) == Len(recentRequests) >= maxRequests

\* The push left out: the list stored is the pruned one.
Recorded_forgotten(recentRequests, now) == recentRequests

\* The list stored holds the new timestamp only.
Recorded_overwrite(recentRequests, now) == <<now>>

\* recentRequests.push(now)
Recorded(recentRequests, now) == Append(recentRequests, now)

\* The timestamp recorded before the limit is checked.
RateLimitingDecorator_recordFirst(this, request, s0) ==
    LET s == Observe(s0, "rateLimiting")
        clientId == clientIdOf(request)
        has == IF clientId \in DOMAIN s.requests
               THEN s.requests ELSE MapSet(s.requests, clientId, <<>>)
        recentRequests == RecentRequests(has[clientId], s.now)
        recorded == [s EXCEPT !.requests =
                        MapSet(has, clientId, Recorded(recentRequests, s.now))]
    IN  IF RateLimited(recentRequests)
        THEN Returned(recorded, R429)
        ELSE HttpHandlerDecorator(this, request, recorded)

RateLimitingDecorator(this, request, s0) ==
    LET s == Observe(s0, "rateLimiting")
        clientId == clientIdOf(request)
        has == IF clientId \in DOMAIN s.requests
               THEN s.requests ELSE MapSet(s.requests, clientId, <<>>)
        recentRequests == RecentRequests(has[clientId], s.now)
    IN  IF RateLimited(recentRequests)
        THEN Returned([s EXCEPT !.requests = has], R429)
        ELSE HttpHandlerDecorator(this, request,
                [s EXCEPT !.requests =
                    MapSet(has, clientId, Recorded(recentRequests, s.now))])

\* The check reading the clientId header instead of authorization.
Authorized_clientId(request) == ~Falsy(request.clientId)

\* request.headers?.authorization is truthy
Authorized(request) == ~Falsy(request.authorization)

AuthenticationDecorator(this, request, s0) ==
    LET s == Observe(s0, "authentication") IN
    IF ~Authorized(request)
    THEN Returned(s, R401)
    ELSE HttpHandlerDecorator(this, request, s)

\* The comparison written as request.method === 'post'.
Valid_lowercase(request) == ~(request.method = "post" /\ Falsy(request.body))

\* not (request.method === 'POST' && !request.body)
Valid(request) == ~(request.method = "POST" /\ Falsy(request.body))

ValidationDecorator(this, request, s0) ==
    LET s == Observe(s0, "validation") IN
    IF ~Valid(request)
    THEN Returned(s, R400)
    ELSE HttpHandlerDecorator(this, request, s)

handle(this, request, s) ==
    CASE Head(this) = "base" -> BasicHttpHandler(request, s)
      [] Head(this) = "logging" -> LoggingDecorator(this, request, s)
      [] Head(this) = "caching" -> CachingDecorator(this, request, s)
      [] Head(this) = "rateLimiting" -> RateLimitingDecorator(this, request, s)
      [] Head(this) = "authentication" -> AuthenticationDecorator(this, request, s)
      [] Head(this) = "validation" -> ValidationDecorator(this, request, s)

\* The chain wrapped in another order, rate limiting outermost.
createApiHandler_rateLimitFirst ==
    LET h1 == <<"base">>
        h2 == New("logging", h1)
        h3 == New("caching", h2)
        h4 == New("authentication", h3)
        h5 == New("validation", h4)
    IN  New("rateLimiting", h5)

\* The two outermost stages wrapped in the other order.
createApiHandler_authFirst ==
    LET h1 == <<"base">>
        h2 == New("logging", h1)
        h3 == New("caching", h2)
        h4 == New("rateLimiting", h3)
        h5 == New("validation", h4)
    IN  New("authentication", h5)

\* The chain without its base handler: the innermost stage wraps nothing.
createApiHandler_noBase ==
    LET h2 == New("logging", null)
        h3 == New("caching", h2)
        h4 == New("rateLimiting", h3)
        h5 == New("authentication", h4)
    IN  New("validation", h5)

\* Caching wrapped around rate limiting: the cache is consulted first.
createApiHandler_cacheFirst ==
    LET h1 == <<"base">>
        h2 == New("logging", h1)
        h3 == New("rateLimiting", h2)
        h4 == New("caching", h3)
        h5 == New("authentication", h4)
    IN  New("validation", h5)

\* Caching wrapped around the whole chain: it sees every response.
createApiHandler_cacheOutermost ==
    LET h1 == <<"base">>
        h2 == New("logging", h1)
        h3 == New("rateLimiting", h2)
        h4 == New("authentication", h3)
        h5 == New("validation", h4)
    IN  New("caching", h5)

\* createApiHandler(): the base handler wrapped stage by stage, innermost
\* first; the handler returned is the outermost stage.
createApiHandler ==
    LET h1 == <<"base">>
        h2 == New("logging", h1)
        h3 == New("caching", h2)
        h4 == New("rateLimiting", h3)
        h5 == New("authentication", h4)
    IN  New("validation", h5)

----------------------------------------------------------------------------
(* State after construction (`const handler = createApiHandler()`): both   *)
(* tables empty, nothing in flight.                                        *)

Fresh ==
    /\ clock = 0
    /\ cache = EmptyMap
    /\ requests = EmptyMap
    /\ mq = <<>>
    /\ calls = <<>>
    /\ fills = {}

\* Class Singleton evaluated, no call made: the static field is unset.
Loaded ==
    /\ instance = {}
    /\ processes = 0
    /\ returns = <<>>

\* The orders of runStateDemo (state.ts lines 179 and 187).
OrderIds == {"ORD-001", "ORD-002"}

\* `new Order(id)`: the constructor sets the state to a PendingState
\* (state.ts line 119).
Placed ==
    /\ state = [id \in OrderIds |-> "PendingState"]
    /\ applied = [id \in OrderIds |-> <<>>]

\* `new UserService()` and `new CommandQueue()` (command.ts lines 134-135)
Idle ==
    /\ commands = <<>>
    /\ history = <<>>
    /\ users = EmptyMap
    /\ running = {}
    /\ journal = <<>>

\* `new EventEmitter()` (state.ts line 304)
Silent ==
    /\ observers = <<>>
    /\ events = <<>>

Constructed == Placed /\ Idle /\ Silent

Init ==
    /\ Fresh
    /\ handler = createApiHandler
    /\ Loaded
    /\ Constructed

\* Responses of completed calls that were in the cache for this key before.
Firsts(request) ==
    {[response |-> f.response, storedAt |-> f.storedAt] :
        f \in {g \in fills : g.key = cacheKeyOf(request) /\ g.done}}

\* handler.handle(request): the synchronous descent through the chain,
\* d after the clock was last read.
Handle(request, d) ==
    /\ LET r == handle(handler, request,
                   [now |-> clock + d, cache |-> cache, requests |-> requests,
                    trace |-> <<>>, cached |-> {}])
           id == Len(calls) + 1
       IN  /\ requests' = r.requests
           /\ cache' = r.cache
           /\ mq' = Append(mq, [id |-> id, request |-> request,
                                response |-> r.response, stack |-> r.stack,
                                trace |-> r.trace, now |-> clock + d,
                                cached |-> r.cached,
                                firsts |-> Firsts(request)])
           /\ calls' = Append(calls, [clientId |-> clientIdOf(request),
                                      valid |-> Valid(request),
                                      authorized |-> Authorized(request),
                                      time |-> clock + d,
                                      status |-> r.response.status,
                                      settled |-> 0])
    /\ clock' = clock + d
    /\ UNCHANGED <<fills, handler, singleton, behavioral>>

\* The caller issues a call, at most inFlight of them pending at a time.
Issue(pool, maxCalls, inFlight) ==
    /\ Len(calls) < maxCalls
    /\ Len(mq) < inFlight
    /\ \E request \in pool, d \in Elapsed : Handle(request, d)

----------------------------------------------------------------------------
(* Microtasks: the continuation of the frame on top of the first call. *)

Running == Head(mq)
Frame == Head(Running.stack)

\* The frame left suspended: its await never resumes.
Popped_never(task) == task

\* The call at the head, with its top frame returned, goes to the tail.
Popped(task) == [task EXCEPT !.stack = Tail(@)]

Resumable(frames) ==
    /\ mq # <<>>
    /\ Running.stack # <<>>
    /\ Frame \in frames

\* The promise the frame awaits is rejected: the await throws, the rest of
\* the function is skipped and its own promise is rejected in turn.
Rejected(task) == task.response = TypeError

Rethrown ==
    /\ mq' = Append(Tail(mq), Popped(Running))
    /\ UNCHANGED <<clock, cache, requests, calls, fills, handler, singleton, behavioral>>

\* HttpHandlerDecorator.handle after its await (line 67): returns the response.
ResumeSuper ==
    /\ Resumable({"logging.super", "caching.super", "rateLimiting.super",
                  "authentication.super", "validation.super"})
    /\ mq' = Append(Tail(mq), Popped(Running))
    /\ UNCHANGED <<clock, cache, requests, calls, fills, handler, singleton, behavioral>>

\* The second log line left out.
ResumeLogging_silent ==
    /\ Resumable({"logging"})
    /\ mq' = Append(Tail(mq), Popped(Running))
    /\ UNCHANGED <<clock, cache, requests, calls, fills, handler, singleton, behavioral>>

\* LoggingDecorator.handle after its await (lines 84-87).
ResumeLogging ==
    /\ Resumable({"logging"})
    /\ IF Rejected(Running)
       THEN Rethrown
       ELSE /\ mq' = Append(Tail(mq),
                     [Popped(Running) EXCEPT !.trace = Append(@, "logging.end")])
            /\ UNCHANGED <<clock, cache, requests, calls, fills, handler, singleton, behavioral>>

\* CachingDecorator.handle after its await (lines 126-129), d after the
\* clock was last read.
Store(d) ==
    /\ clock' = clock + d
    /\ cache' = MapSet(cache, cacheKeyOf(Running.request),
                       Stored(Running.response, clock + d))
    /\ fills' = fills \cup {[id |-> Running.id,
                             key |-> cacheKeyOf(Running.request),
                             request |-> Running.request,
                             response |-> Running.response,
                             storedAt |-> clock + d, done |-> FALSE]}
    /\ mq' = Append(Tail(mq),
                    [Popped(Running) EXCEPT !.trace = Append(@, "cache.set")])
    /\ UNCHANGED <<requests, calls, handler, singleton, behavioral>>

ResumeCaching ==
    /\ Resumable({"caching"})
    /\ IF Rejected(Running) THEN Rethrown ELSE \E d \in Elapsed : Store(d)

\* RateLimitingDecorator, AuthenticationDecorator and ValidationDecorator
\* after their await (lines 162, 103, 178): return the response.
ResumeStage ==
    /\ Resumable({"rateLimiting", "authentication", "validation"})
    /\ mq' = Append(Tail(mq), Popped(Running))
    /\ fills' = IF Tail(Running.stack) = <<>>
                THEN {[f EXCEPT !.done = @ \/ f.id = Running.id] : f \in fills}
                ELSE fills
    /\ UNCHANGED <<clock, cache, requests, calls, handler, singleton, behavioral>>

\* The promise of the call is settled (resolved with the response, or
\* rejected): the caller's await takes the outcome.
Return ==
    /\ mq # <<>>
    /\ Running.stack = <<>>
    /\ mq' = Tail(mq)
    /\ calls' = [calls EXCEPT ![Running.id].settled = @ + 1]
    /\ UNCHANGED <<clock, cache, requests, fills, handler, singleton, behavioral>>

Microtask ==
    \/ ResumeSuper
    \/ ResumeLogging
    \/ ResumeCaching
    \/ ResumeStage
    \/ Return

----------------------------------------------------------------------------
(* Callers *)

Methods == {"POST", "GET"}
Paths == {"/api/users"}
Bodies == {undefined, "John"}
Authorizations == {undefined, "Bearer token123"}
ClientIds == {undefined, "client-1"}

\* Requests with and without body, credential and client identifier.  The
\* ones without client identifier are those that a stage rejects.
Pool ==
    {request \in {HttpRequest(m, p, b, a, c) :
                    m \in Methods, p \in Paths, b \in Bodies,
                    a \in Authorizations, c \in ClientIds} :
        \/ request.clientId = "client-1"
        \/ ~Valid(request)
        \/ ~Authorized(request)}

\* Requests of client-1 to one endpoint, with and without body and credential.
BurstPool ==
    {HttpRequest("POST", "/api/users", "John", "Bearer token123", "client-1"),
     HttpRequest("POST", "/api/users", undefined, "Bearer token123", "client-1"),
     HttpRequest("POST", "/api/users", "John", undefined, "client-1")}

\* Valid requests of client-1 to one endpoint.
RacePool ==
    {HttpRequest("POST", "/api/users", "John", "Bearer token123", "client-1")}

\* The four requests of runDecoratorDemo, in its order (lines 256-293); the
\* body { name: 'John' } is the value "John".
Demo ==
    <<HttpRequest("POST", "/api/users", "John", "Bearer token123", "client-1"),
      HttpRequest("POST", "/api/users", "John", "Bearer token123", "client-1"),
      HttpRequest("POST", "/api/users", "John", undefined, "client-1"),
      HttpRequest("POST", "/api/users", undefined, "Bearer token123", "client-1")>>

\* Requests of two clients to one endpoint, that differ in body, credential
\* and client identifier, and two requests that a stage rejects.
SharedPool ==
    {HttpRequest("GET", "/api/users", "John", "Bearer token123", "client-1"),
     HttpRequest("GET", "/api/users", undefined, "Bearer token456", "client-2"),
     HttpRequest("POST", "/api/users", undefined, "Bearer token123", "client-1"),
     HttpRequest("POST", "/api/users", "John", undefined, "client-2")}

\* Valid requests of a named client and of clients that send no client
\* identifier or an empty one.
ClientPool ==
    {HttpRequest("POST", "/api/users", "John", "Bearer token123", c) :
        c \in {"client-1", undefined, ""}}

\* A caller that issues calls while earlier ones are pending.
Call == Issue(Pool, MaxCalls, MaxInFlight)

\* A caller that awaits each call before the next, as runDecoratorDemo does.
Burst == Issue(BurstPool, MaxBurst, 1)

\* A caller that fires valid requests of one client without awaiting them.
Race == Issue(RacePool, MaxBurst, MaxInFlight)

Next == Call \/ Microtask
Spec == Init /\ [][Next]_vars

NextBurst == Burst \/ Microtask
SpecBurst == Init /\ [][NextBurst]_vars

NextRace == Race \/ Microtask
SpecRace == Init /\ [][NextRace]_vars

\* Several clients, each call awaited before the next is made.
AnyClient == Issue(ClientPool, MaxBurst, 1)

NextClients == AnyClient \/ Microtask
SpecClients == Init /\ [][NextClients]_vars

\* Callers with different bodies, credentials and client identifiers, whose
\* calls are in flight together.
Share == Issue(SharedPool, MaxCalls, MaxInFlight)

NextShare == Share \/ Microtask
SpecShare == Init /\ [][NextShare]_vars

\* The event loop runs the microtask queue until it is empty: a
\* continuation that is ready is run.
FairSpecShare == SpecShare /\ WF_vars(Microtask)

----------------------------------------------------------------------------
(* Construction by a caller that composes the stages itself, and may pass  *)
(* no handler to a constructor.                                            *)

Stages == {"logging", "caching", "rateLimiting", "authentication",
           "validation"}

Classes(this) == {this[i] : i \in 1..Len(this)}

\* handler = new <stage>(wrapped), before the first call is made.  Each
\* class is instantiated at most once in a chain, so that the tables of the
\* model are those of its one instance.
Wrap(stage, wrapped) ==
    /\ calls = <<>>
    /\ Len(handler) < MaxStages
    /\ stage \notin Classes(handler)
    /\ handler' = New(stage, wrapped)
    /\ UNCHANGED <<clock, cache, requests, mq, calls, fills, singleton, behavioral>>

Construct == \E stage \in Stages, wrapped \in {handler, null} : Wrap(stage, wrapped)

\* Calls on the handler constructed so far.
Use == Issue(BurstPool, MaxUses, MaxInFlight)

\* `let handler = new BasicHttpHandler()` (line 213)
InitBuild ==
    /\ Fresh
    /\ handler = <<"base">>
    /\ Loaded
    /\ Constructed

NextBuild == Construct \/ Use \/ Microtask
SpecBuild == InitBuild /\ [][NextBuild]_vars

----------------------------------------------------------------------------
(* src/creational/singleton.ts: class Singleton, holder of one Process.    *)
(* The field instance is the set of at most one object; a Process is       *)
(* identified by the order of its creation.                                *)

\* The test always true: every call creates.
Uninitialized_always(inst) == TRUE

\* !Singleton.instance: the field is undefined or null (an object is truthy)
Uninitialized(inst) == inst = {}

\* Process.getInstance(): `new Process()`, an object that did not exist.
NewProcess(created) == created + 1

\* Singleton.getInstance()
getInstance ==
    /\ Len(returns) < MaxOps
    /\ IF Uninitialized(instance)
       THEN /\ instance' = {NewProcess(processes)}
            /\ processes' = processes + 1
       ELSE UNCHANGED <<instance, processes>>
    /\ returns' = Append(returns, [op |-> "getInstance", result |-> instance'])
    /\ UNCHANGED <<chain, behavioral>>

\* Singleton.destroy()
destroy ==
    /\ Len(returns) < MaxOps
    /\ instance' = {}
    /\ returns' = Append(returns, [op |-> "destroy", result |-> {}])
    /\ UNCHANGED <<chain, processes, behavioral>>

NextSingleton == getInstance \/ destroy
SpecSingleton == Init /\ [][NextSingleton]_vars

----------------------------------------------------------------------------
(* src/behavioral/state.ts: class Order and its five state classes.  A     *)
(* state object is named by its class, which is what getState() returns.   *)
(* Each state class is the function from the operation called on it to the *)
(* state object it installs with order.setState(...), the empty set where  *)
(* the method only logs.                                                   *)

Operations == {"process", "cancel", "ship", "deliver"}

\* Shipping allowed before processing.
PendingState_shipDirect(op) ==
    CASE op = "process" -> {"ProcessingState"}
      [] op = "cancel"  -> {"CancelledState"}
      [] op = "ship"    -> {"ShippedState"}
      [] OTHER          -> {}

\* class PendingState (lines 13-31)
PendingState(op) ==
    CASE op = "process" -> {"ProcessingState"}
      [] op = "cancel"  -> {"CancelledState"}
      [] OTHER          -> {}

\* class ProcessingState (lines 33-51)
ProcessingState(op) ==
    CASE op = "cancel" -> {"CancelledState"}
      [] op = "ship"   -> {"ShippedState"}
      [] OTHER         -> {}

\* A shipped order that can still be cancelled.
ShippedState_cancellable(op) ==
    CASE op = "deliver" -> {"DeliveredState"}
      [] op = "cancel"  -> {"CancelledState"}
      [] OTHER          -> {}

\* class ShippedState (lines 53-70)
ShippedState(op) ==
    CASE op = "deliver" -> {"DeliveredState"}
      [] OTHER          -> {}

\* class DeliveredState (lines 72-88)
DeliveredState(op) == {}

\* class CancelledState (lines 90-106)
CancelledState(op) == {}

\* this.state.<op>(this): the method of the state object the order holds.
Dispatch(class, op) ==
    CASE class = "PendingState"    -> PendingState(op)
      [] class = "ProcessingState" -> ProcessingState(op)
      [] class = "ShippedState"    -> ShippedState(op)
      [] class = "DeliveredState"  -> DeliveredState(op)
      [] class = "CancelledState"  -> CancelledState(op)

\* Order.setState(state) (lines 122-124)
setState(st, id, installed) == [st EXCEPT ![id] = installed]

\* Order.getState() (lines 126-128): the name of the class of the state.
getState(st, id) == st[id]

\* Order.process / cancel / ship / deliver (lines 130-144): delegate to the
\* current state object, which installs a state or only logs.
Delegate(id, op) ==
    /\ Len(applied[id]) < MaxOrderOps
    /\ LET installs == Dispatch(state[id], op)
           next == IF installs = {} THEN state
                   ELSE setState(state, id, CHOOSE n \in installs : TRUE)
       IN /\ state' = next
          /\ applied' = [applied EXCEPT ![id] =
                 Append(@, [op |-> op, from |-> getState(state, id),
                            to |-> getState(next, id)])]
    /\ UNCHANGED <<chain, singleton, queue, emitter>>

process == \E id \in OrderIds : Delegate(id, "process")
cancel == \E id \in OrderIds : Delegate(id, "cancel")
ship == \E id \in OrderIds : Delegate(id, "ship")
deliver == \E id \in OrderIds : Delegate(id, "deliver")

NextOrder == process \/ cancel \/ ship \/ deliver
SpecOrder == Init /\ [][NextOrder]_vars

----------------------------------------------------------------------------
(* src/behavioral/command.ts: CommandQueue, UserService and the commands.  *)
(* A command object is a record: id names the object (the order in which   *)
(* it was added), class its class, email and name its constructor          *)
(* arguments, and saved its private field previousData / deletedUser, the  *)
(* set of at most one user.  The methods of UserService change the map     *)
(* before their first await (the 50 ms timer), so their effect is part of  *)
(* the synchronous run that calls them.  processQueue is suspended at      *)
(* `await command.execute()`; addCommand, undoLast and another             *)
(* processQueue can run while it is.                                       *)

\* { email, name }
User(email, name) == [email |-> email, name |-> name]

\* Map.delete(k)
MapDelete(map, k) == [x \in DOMAIN map \ {k} |-> map[x]]

\* { ...user, ...data }
Spread(user, data) ==
    [f \in DOMAIN user \cup DOMAIN data |->
        IF f \in DOMAIN data THEN data[f] ELSE user[f]]

\* UserService.createUser (lines 107-110)
createUser(map, userData) == MapSet(map, userData.email, userData)

\* UserService.getUser (lines 112-114): undefined is the empty set
getUser(map, email) == IF email \in DOMAIN map THEN {map[email]} ELSE {}

\* UserService.updateUser (lines 116-122)
updateUser(map, email, data) ==
    LET user == getUser(map, email) IN
    IF user # {}
    THEN MapSet(map, email, Spread(CHOOSE u \in user : TRUE, data))
    ELSE map

\* UserService.deleteUser (lines 124-127)
deleteUser(map, email) == MapDelete(map, email)

\* The commands a caller constructs: those of runCommandDemo (lines
\* 138-146), a DeleteUserCommand, and two other implementations of
\* interface Command (lines 5-8): "Failing", whose execute rejects, and
\* "Plain", which has no undo.  The three classes of the file never throw
\* and all define undo.
Command(class, email, name) ==
    [class |-> class, email |-> email, name |-> name, saved |-> {}]

Constructible ==
    {Command("CreateUserCommand", "john@example.com", "John Doe"),
     Command("UpdateUserCommand", "john@example.com", "John Smith"),
     Command("CreateUserCommand", "jane@example.com", "Jane Doe"),
     Command("DeleteUserCommand", "john@example.com", undefined),
     Command("Failing", undefined, undefined),
     Command("Plain", undefined, undefined)}

\* The entries of the journal.  id and class are those of the command
\* concerned (NoCommand: none), before and after the user map around the
\* step, pending the length of the queue after it.
NoCommand == [id |-> 0, class |-> undefined]

Entry(op, command, before, after, pending) ==
    [op |-> op, id |-> command.id, class |-> command.class,
     before |-> before, after |-> after, pending |-> pending]

Entries(op) == {k \in 1..Len(journal) : journal[k].op = op}

\* The first synchronous part of command.execute(): up to its first await.
\* CreateUserCommand (lines 17-20) has stored the user; UpdateUserCommand
\* and DeleteUserCommand (lines 38 and 60) have read the user and wait for
\* the promise of getUser.
Started(command, map) ==
    CASE command.class = "CreateUserCommand" ->
            [users |-> createUser(map, User(command.email, command.name)),
             phase |-> "timer", got |-> {}]
      [] command.class \in {"UpdateUserCommand", "DeleteUserCommand"} ->
            [users |-> map, phase |-> "read", got |-> getUser(map, command.email)]
      [] command.class = "Failing" ->
            [users |-> map, phase |-> "thrown", got |-> {}]
      [] OTHER ->
            [users |-> map, phase |-> "timer", got |-> {}]

\* The rest of execute after `await this.userService.getUser(...)`:
\* lines 38-40 and 60-62.
Continued_execute(command, map) ==
    IF command.class = "UpdateUserCommand"
    THEN updateUser(map, command.email, [name |-> command.name])
    ELSE deleteUser(map, command.email)

\* command.undo, where the class defines it: lines 22-25, 43-48, 65-70.
Undone(command, map) ==
    CASE command.class = "CreateUserCommand" -> deleteUser(map, command.email)
      [] command.class = "UpdateUserCommand" ->
            IF command.saved # {}
            THEN updateUser(map, command.email, CHOOSE u \in command.saved : TRUE)
            ELSE map
      [] command.class = "DeleteUserCommand" ->
            IF command.saved # {}
            THEN createUser(map, CHOOSE u \in command.saved : TRUE)
            ELSE map
      [] OTHER -> map

\* command.undo is defined (line 97)
HasUndo(command) == command.class \notin {"Plain", "Failing"}

\* The newest command first.
shift_newest(cmds) ==
    [command |-> cmds[Len(cmds)], rest |-> SubSeq(cmds, 1, Len(cmds) - 1)]

\* this.commands.shift() (line 84)
shift(cmds) == [command |-> Head(cmds), rest |-> Tail(cmds)]

\* The oldest command of the history.
pop_oldest(hist) == [command |-> Head(hist), rest |-> Tail(hist)]

\* this.history.pop() (line 96), on a history that is not empty
pop(hist) ==
    [command |-> hist[Len(hist)], rest |-> SubSeq(hist, 1, Len(hist) - 1)]

\* CommandQueue.addCommand (lines 78-80)
addCommand(command) ==
    /\ Cardinality(Entries("addCommand")) < MaxCommands
    /\ LET id == Cardinality(Entries("addCommand")) + 1
           object == [id |-> id, class |-> command.class, email |-> command.email,
                      name |-> command.name, saved |-> command.saved]
       IN /\ commands' = Append(commands, object)
          /\ journal' = Append(journal,
                 Entry("addCommand", object, users, users, Len(commands) + 1))
    /\ UNCHANGED <<history, users, running>>
    /\ UNCHANGED <<chain, singleton, orders, emitter>>

\* The loop of processQueue from its test (line 83) to the next await or
\* to the return: with the queue empty the call returns, otherwise it
\* takes a command from the queue and runs execute to its first await.
Loop(others, log) ==
    IF commands = <<>>
    THEN /\ running' = others
         /\ journal' = Append(log, Entry("return", NoCommand, users, users, Len(commands)))
         /\ UNCHANGED <<commands, users>>
    ELSE LET taken == shift(commands)
             started == Started(taken.command, users)
         IN /\ commands' = taken.rest
            /\ users' = started.users
            /\ running' = others \cup
                   {[command |-> taken.command, phase |-> started.phase,
                     got |-> started.got]}
            /\ journal' = Append(log,
                   Entry("shift", taken.command, users, started.users,
                         Len(taken.rest)))

\* CommandQueue.processQueue (lines 82-93), the call
processQueue ==
    /\ Cardinality(Entries("processQueue")) < MaxRuns
    /\ Cardinality(running) < MaxProcessing
    /\ Loop(running, Append(journal,
                Entry("processQueue", NoCommand, users, users, Len(commands))))
    /\ UNCHANGED history
    /\ UNCHANGED <<chain, singleton, orders, emitter>>

\* The promise of getUser is resolved: execute stores the user it read and
\* calls updateUser or deleteUser, which waits for its timer.
ResumeExecute ==
    \E run \in running :
        /\ run.phase = "read"
        /\ LET after == Continued_execute(run.command, users) IN
           /\ users' = after
           /\ running' = (running \ {run}) \cup
                  {[command |-> [run.command EXCEPT !.saved = run.got],
                    phase |-> "timer", got |-> {}]}
           /\ journal' = Append(journal,
                  Entry("execute", run.command, users, after, Len(commands)))
        /\ UNCHANGED <<commands, history>>
        /\ UNCHANGED <<chain, singleton, orders, emitter>>

\* The promise of execute is settled: processQueue pushes the command on
\* the history (line 87), or catches what execute threw (lines 88-91), and
\* goes round its loop.
ResumeProcessQueue ==
    \E run \in running :
        /\ run.phase \in {"timer", "thrown"}
        /\ IF run.phase = "timer"
           THEN /\ history' = Append(history, run.command)
                /\ Loop(running \ {run}, Append(journal,
                       Entry("push", run.command, users, users, Len(commands))))
           ELSE /\ history' = history
                /\ Loop(running \ {run}, Append(journal,
                       Entry("catch", run.command, users, users, Len(commands))))
        /\ UNCHANGED <<chain, singleton, orders, emitter>>

\* CommandQueue.undoLast (lines 95-100): pop, then the synchronous part of
\* command.undo(), which is all of its effect.  The journal has an entry
\* for the call of undoLast and one for the call of undo (line 98).
undoLast ==
    /\ Cardinality(Entries("undoLast")) < MaxUndos
    /\ IF history = <<>>
       THEN /\ journal' = Append(journal,
                   Entry("undoLast", NoCommand, users, users, Len(commands)))
            /\ UNCHANGED <<history, users>>
       ELSE LET popped == pop(history)
                after == IF HasUndo(popped.command)
                         THEN Undone(popped.command, users) ELSE users
            IN /\ history' = popped.rest
               /\ users' = after
               /\ journal' =
                      LET log == Append(journal,
                              Entry("undoLast", popped.command, users, users,
                                    Len(commands)))
                      IN IF HasUndo(popped.command)
                         THEN Append(log, Entry("undo", popped.command, users,
                                                after, Len(commands)))
                         ELSE log
    /\ UNCHANGED <<commands, running>>
    /\ UNCHANGED <<chain, singleton, orders, emitter>>

NextQueue ==
    \/ \E command \in Constructible : addCommand(command)
    \/ processQueue
    \/ ResumeExecute
    \/ ResumeProcessQueue
    \/ undoLast

SpecQueue == Init /\ [][NextQueue]_vars

----------------------------------------------------------------------------
(* src/behavioral/state.ts: class EventEmitter.  An observer object is     *)
(* named by its class; setupBackendServices makes one of each.  The        *)
(* update methods of the four classes only write to the console, so a call *)
(* of update is what notify adds to the history.                           *)

Observers == {"EmailNotificationService", "SMSNotificationService",
              "AuditLogger", "AnalyticsService"}

\* The arguments of notify in UserService.registerUser and
\* OrderService.placeOrder (lines 282 and 298).
Notifications ==
    {[event |-> "user_registered", data |-> "userData"],
     [event |-> "order_placed", data |-> "orderData"]}

\* this.observers.push(observer) (line 225)
Pushed_observer(list, observer) == Append(list, observer)

\* Only the first attachment of the observer removed.
Filtered_first(list, observer) ==
    IF \E i \in 1..Len(list) : list[i] = observer
    THEN LET first == CHOOSE i \in 1..Len(list) :
                 /\ list[i] = observer
                 /\ \A j \in 1..(i - 1) : list[j] # observer
         IN SubSeq(list, 1, first - 1) \o SubSeq(list, first + 1, Len(list))
    ELSE list

\* this.observers.filter(obs => obs !== observer) (line 229)
Filtered(list, observer) == SelectSeq(list, LAMBDA obs : obs # observer)

\* this.observers.forEach(observer => observer.update(event, data))
\* (line 233): the calls of update, in order.
Updated(list, event, data) ==
    [i \in 1..Len(list) |->
        [observer |-> list[i], event |-> event, data |-> data]]

\* EventEmitter.attach (lines 224-226)
attach(observer) ==
    /\ Len(events) < MaxEmitterOps
    /\ observers' = Pushed_observer(observers, observer)
    /\ events' = Append(events, [op |-> "attach", observer |-> observer,
                                 event |-> undefined, data |-> undefined,
                                 updates |-> <<>>, list |-> observers'])
    /\ UNCHANGED <<chain, singleton, orders, queue>>

\* EventEmitter.detach (lines 228-230)
detach(observer) ==
    /\ Len(events) < MaxEmitterOps
    /\ observers' = Filtered(observers, observer)
    /\ events' = Append(events, [op |-> "detach", observer |-> observer,
                                 event |-> undefined, data |-> undefined,
                                 updates |-> <<>>, list |-> observers'])
    /\ UNCHANGED <<chain, singleton, orders, queue>>

\* EventEmitter.notify (lines 232-234)
notify(event, data) ==
    /\ Len(events) < MaxEmitterOps
    /\ events' = Append(events, [op |-> "notify", observer |-> undefined,
                                 event |-> event, data |-> data,
                                 updates |-> Updated(observers, event, data),
                                 list |-> observers])
    /\ UNCHANGED observers
    /\ UNCHANGED <<chain, singleton, orders, queue>>

NextEmitter ==
    \/ \E observer \in Observers : attach(observer)
    \/ \E observer \in Observers : detach(observer)
    \/ \E n \in Notifications : notify(n.event, n.data)

SpecEmitter == Init /\ [][NextEmitter]_vars

----------------------------------------------------------------------------
(* Vocabulary of the properties *)

Tasks == {mq[i] : i \in 1..Len(mq)}

\* The stage (or record) ev is in the trace of the call.
Observed(task, ev) == \E i \in 1..Len(task.trace) : task.trace[i] = ev

Count(task, ev) == Cardinality({i \in 1..Len(task.trace) : task.trace[i] = ev})

Position(task, ev) == CHOOSE i \in 1..Len(task.trace) : task.trace[i] = ev

\* The frame is still suspended at its await.
Suspended(task, frame) == \E i \in 1..Len(task.stack) : task.stack[i] = frame

\* The promise of the call is resolved with task.response.
Completed(task) == task.stack = <<>>

Downstream == {"rateLimiting", "caching", "logging.start", "base",
               "logging.end", "cache.set"}

\* The instants of the model.
Instants == {k * TickMs : k \in 0..MaxTicks}

Clients == {calls[i].clientId : i \in 1..Len(calls)}

\* The calls of a client, in arrival order.
ClientLog(c) == SelectSeq(calls, LAMBDA e : e.clientId = c)

\* Those of them that pass validation and authentication: the calls that
\* reach the rate-limiting stage.
RateLog(c) == SelectSeq(calls, LAMBDA e : e.clientId = c /\ e.valid /\ e.authorized)

\* The call was delegated downstream by the rate-limiting stage.
Admitted(e) == e.valid /\ e.authorized /\ e.status # 429

\* The timestamps of the admitted calls of a client, in arrival order.
AdmittedTimes(c) ==
    LET log == SelectSeq(calls, LAMBDA e : e.clientId = c /\ Admitted(e))
    IN  [i \in 1..Len(log) |-> log[i].time]

\* The admitted calls of a client in the trailing window (t - windowMs, t].
InWindow(c, t) ==
    {i \in 1..Len(calls) :
        /\ calls[i].clientId = c
        /\ Admitted(calls[i])
        /\ calls[i].time <= t
        /\ t - calls[i].time < windowMs}

----------------------------------------------------------------------------
(* C1.  A POST request without (with a falsy) body gets status 400 from    *)
(* the validation stage, synchronously, and no stage below validation      *)
(* observes it: not the base handler, nor any other stage; whatever its    *)
(* headers and whatever calls came before.                                 *)

C1_MissingBodyRejected ==
    \A task \in Tasks :
        (task.request.method = "POST" /\ Falsy(task.request.body)) =>
            /\ task.response = R400
            /\ task.trace = <<"validation">>
            /\ Completed(task)

\* A POST without body that carries a credential is answered 400 after
\* other calls were made.
C1_Witness ==
    \E task \in Tasks :
        /\ task.request.method = "POST" /\ Falsy(task.request.body)
        /\ Authorized(task.request)
        /\ task.response.status = 400
        /\ task.id > 1
        /\ \E i \in 1..Len(calls) : calls[i].status = 200

(* C2.  As claimed: every request without authorization header gets 401    *)
(* and no stage below authentication observes it.                          *)

C2_Original ==
    \A task \in Tasks :
        Falsy(task.request.authorization) =>
            /\ task.response.status = 401
            /\ \A ev \in Downstream : ~Observed(task, ev)

(* C2, amended.  A request without authorization header that passes        *)
(* validation gets 401 from the authentication stage; a POST that has no   *)
(* body either gets 400 from the validation stage, which runs first.  In   *)
(* both cases no stage below (rate limiting, caching, logging, base)       *)
(* observes the request.                                                   *)

C2_MissingAuthorizationRejected ==
    \A task \in Tasks :
        Falsy(task.request.authorization) =>
            /\ Valid(task.request) =>
                /\ task.response = R401
                /\ task.trace = <<"validation", "authentication">>
            /\ ~Valid(task.request) =>
                /\ task.response = R400
                /\ task.trace = <<"validation">>
            /\ \A ev \in Downstream : ~Observed(task, ev)

\* A request with a body and a client identifier but no credential is
\* answered 401.
C2_Witness ==
    \E task \in Tasks :
        /\ Falsy(task.request.authorization)
        /\ ~Falsy(task.request.clientId)
        /\ Valid(task.request)
        /\ task.request.method = "POST"
        /\ task.response.status = 401
        /\ Completed(task)

(* C3.  Six requests of one client that pass validation and                *)
(* authentication, the first of them finding no admitted request of the    *)
(* client in its window, all six less than 60 s apart: the first five are  *)
(* admitted and answered 200, the sixth is answered 429.  The status       *)
(* decided in the descent is the status of the response returned.          *)

C3_SixthRequestLimited ==
    /\ \A c \in Clients :
        LET log == RateLog(c) IN
        \A i \in 1..Len(log) :
            (\A j \in 1..(i - 1) :
                Admitted(log[j]) => log[i].time - log[j].time >= windowMs) =>
            \A k \in i..Len(log) :
                (k <= i + 5 /\ log[k].time - log[i].time < windowMs) =>
                    log[k].status = IF k < i + 5 THEN 200 ELSE 429
    /\ \A task \in Tasks : task.response.status = calls[task.id].status

\* The sixth request arrives later than the first, inside the window, and
\* its call has returned 429.
C3_Witness ==
    \E c \in Clients :
        LET log == RateLog(c) IN
        /\ Len(log) >= 6
        /\ \A k \in 1..5 : log[k].status = 200
        /\ log[6].status = 429
        /\ log[6].time > log[1].time
        /\ log[6].time - log[1].time < windowMs
        /\ \E task \in Tasks :
            /\ task.id = Len(calls)
            /\ Completed(task)
            /\ task.response = R429

(* C4.  For every client and every instant t, at most 5 admitted requests  *)
(* have their timestamp in the trailing window (t - 60000, t], and the     *)
(* list stored for a client never holds more than 5 timestamps.            *)

C4_WindowNeverExceeded ==
    /\ \A c \in Clients :
        \A t \in Instants : Cardinality(InWindow(c, t)) <= maxRequests
    /\ \A c \in DOMAIN requests : Len(requests[c]) <= maxRequests

\* The window was full and has moved on: a sixth request was admitted.
C4_Witness ==
    \E c \in DOMAIN requests :
        /\ Len(AdmittedTimes(c)) = 6
        /\ \E t \in Instants : Cardinality(InWindow(c, t)) = maxRequests
        /\ Len(requests[c]) < Len(AdmittedTimes(c))

(* C7.  A call that reaches the logging stage (a cache miss) has exactly   *)
(* one start record, then the base handler, then - once the logging frame  *)
(* has resumed - exactly one end record.  A call served from cache or      *)
(* rejected with 400, 401 or 429 has no logging record.                    *)

ReachesLogging(task) ==
    Observed(task, "caching") /\ ~CacheFresh(task.cached, task.now)

C7_OneLogPairPerCall ==
    \A task \in Tasks :
        LET starts == Count(task, "logging.start")
            ends == Count(task, "logging.end")
        IN  /\ ReachesLogging(task) =>
                /\ starts = 1
                /\ Count(task, "base") = 1
                /\ Position(task, "logging.start") < Position(task, "base")
                /\ ends = IF Suspended(task, "logging") THEN 0 ELSE 1
                /\ ends = 1 =>
                    Position(task, "base") < Position(task, "logging.end")
            /\ ~ReachesLogging(task) => starts = 0 /\ ends = 0
            /\ task.response.status \in {400, 401, 429} =>
                starts = 0 /\ ends = 0

\* A call has completed with its pair of records around the base handler,
\* after earlier calls.
C7_Witness ==
    \E task \in Tasks :
        /\ Completed(task)
        /\ task.id > 2
        /\ task.trace = <<"validation", "authentication", "rateLimiting",
                          "caching", "logging.start", "base", "logging.end",
                          "cache.set">>

(* C8.  As claimed: of six requests client-1 sends within 60 s, the sixth  *)
(* log 429 whether or not it or the five before it carry a body and    *)
(* an authorization header.                                                *)

C8_Original ==
    \A c \in Clients :
        LET log == ClientLog(c) IN
        (Len(log) >= 6 /\ log[6].time - log[1].time < windowMs) =>
            log[6].status = 429

(* C8, amended.  Of the first six requests a client sends, all within      *)
(* 60 s, the sixth log 429 only if it and the five before it all pass  *)
(* validation and authentication.  A sixth without body log 400, one   *)
(* with a body but without authorization 401, and a valid sixth is         *)
(* admitted (200) when one of the five before it was rejected with 400 or  *)
(* 401: validation and authentication run before rate limiting, and the    *)
(* requests they reject take no slot.                                      *)

C8_SixthPerValidity ==
    \A c \in Clients :
        LET log == ClientLog(c) IN
        (Len(log) >= 6 /\ log[6].time - log[1].time < windowMs) =>
            log[6].status =
                IF ~log[6].valid THEN 400
                ELSE IF ~log[6].authorized THEN 401
                ELSE IF \A k \in 1..5 : log[k].valid /\ log[k].authorized
                     THEN 429
                     ELSE 200

\* A valid sixth request is admitted because an earlier one had no body.
C8_Witness ==
    \E c \in Clients :
        LET log == ClientLog(c) IN
        /\ Len(log) >= 6
        /\ log[6].time - log[1].time < windowMs
        /\ log[6].valid /\ log[6].authorized
        /\ \E k \in 1..5 : ~log[k].valid
        /\ log[6].status = 200

(* C9.  The window check and the recording of the timestamp are one step:  *)
(* the list stored for a client holds every admitted timestamp that a      *)
(* window of now or later still covers, and of two calls of one client in  *)
(* flight at the same time, the later is rejected when the earlier took    *)
(* the last slot.                                                          *)

LastSlotTaken(a, b) ==
    /\ a.id < b.id
    /\ clientIdOf(a.request) = clientIdOf(b.request)
    /\ Admitted(calls[a.id])
    /\ calls[b.id].valid /\ calls[b.id].authorized
    /\ b.now - a.now < windowMs
    /\ Cardinality({i \in InWindow(clientIdOf(b.request), b.now) :
                        i < b.id /\ i # a.id}) = maxRequests - 1

C9_NoLostAdmission ==
    /\ \A c \in DOMAIN requests :
        \A t \in Instants :
            t >= clock =>
                RecentRequests(requests[c], t) = RecentRequests(AdmittedTimes(c), t)
    /\ \A a, b \in Tasks :
        LastSlotTaken(a, b) =>
            /\ b.response = R429
            /\ ~Observed(b, "caching")

\* Two calls of one client are suspended at an await; the earlier took the
\* last slot and the later got 429.
C9_Witness ==
    \E a, b \in Tasks :
        /\ LastSlotTaken(a, b)
        /\ ~Completed(a) /\ ~Completed(b)
        /\ Observed(a, "caching")
        /\ b.response.status = 429

(* C5.  Two requests with the same (method, path) reach the caching stage, *)
(* the first a miss whose call has completed, the second less than 60 s    *)
(* after the first's response was stored: the second log the very      *)
(* response of the first, and the base handler is not invoked for it.      *)

ServedFromCache(task) ==
    Observed(task, "caching") /\ ~Observed(task, "logging.start")

C5_SecondServedFirstResponse ==
    \A task \in Tasks :
        Observed(task, "caching") =>
            \A first \in task.firsts :
                task.now - first.storedAt < ttl =>
                    /\ task.response = first.response
                    /\ ~Observed(task, "base")

(* C6.  As claimed: the caching stage serves the stored response exactly   *)
(* when an entry exists whose age, now - creation time, is <= 60000 ms.    *)

C6_Original ==
    \A task \in Tasks :
        Observed(task, "caching") =>
            (ServedFromCache(task) <=>
                \E entry \in task.cached : task.now - entry.timestamp <= ttl)

(* C6, amended.  The caching stage serves the stored response for a        *)
(* (method, path) key exactly when an entry exists whose age is less than  *)
(* 60000 ms; at an age of 60000 ms or more, or without an entry, the       *)
(* request is delegated, the base handler is invoked, and when the call    *)
(* comes back the entry is replaced by the fresh response stamped with the *)
(* time of that moment.                                                    *)

C6_Lookup ==
    \A task \in Tasks :
        Observed(task, "caching") =>
            /\ ServedFromCache(task) <=>
                \E entry \in task.cached : task.now - entry.timestamp < ttl
            /\ ServedFromCache(task) =>
                /\ \E entry \in task.cached : task.response = entry.response
                /\ ~Observed(task, "base")
                /\ ~Suspended(task, "caching")
                /\ ~Observed(task, "cache.set")
            /\ ~ServedFromCache(task) =>
                /\ Count(task, "base") = 1
                /\ task.response =
                     [status |-> 200,
                      body |-> [message |-> "Success",
                                data |-> task.request.body]]
                /\ Observed(task, "cache.set") <=> ~Suspended(task, "caching")

\* The step in which the caching frame of the first call resumes.
C6_Replace ==
    (/\ mq # <<>>
     /\ Running.stack # <<>>
     /\ Frame = "caching"
     /\ mq' # mq
     /\ Len(mq') = Len(mq)) =>
        /\ clock' >= clock
        /\ cacheKeyOf(Running.request) \in DOMAIN cache'
        /\ cache'[cacheKeyOf(Running.request)] =
             [response |-> Running.response, timestamp |-> clock']
        /\ \A k \in DOMAIN cache :
             k # cacheKeyOf(Running.request) => cache'[k] = cache[k]

C6_FreshnessDecides == []C6_Lookup /\ [][C6_Replace]_vars

\* A request found an entry exactly 60000 ms old, was delegated to the base
\* handler, and its response has replaced the entry.
C6_Witness ==
    \E task \in Tasks :
        /\ \E entry \in task.cached :
            /\ task.now - entry.timestamp = ttl
            /\ entry.response # task.response
        /\ Observed(task, "base")
        /\ Observed(task, "cache.set")
        /\ cache[cacheKeyOf(task.request)] =
             [response |-> task.response, timestamp |-> clock]
        /\ clock >= task.now

(* C10.  Two requests with the same (method, path) in flight at the same   *)
(* time, the second entering the caching stage while the first is still    *)
(* suspended at its downstream call and has not stored its response: the   *)
(* base handler is invoked once for the pair and the second log the    *)
(* response of the first.                                                  *)

C10_ConcurrentMissesShareOneCall ==
    \A a, b \in Tasks :
        (/\ a.id < b.id
         /\ cacheKeyOf(a.request) = cacheKeyOf(b.request)
         /\ Suspended(a, "caching")
         /\ Observed(b, "caching")
         /\ b.now - a.now < ttl) =>
            /\ ~Observed(b, "base")
            /\ b.response = a.response

(* C14.  Every decorator stage that exists has a downstream handler, and   *)
(* no call of handle fails because the wrapped handler is absent:          *)
(* constructing a stage without one fails at construction.                 *)

C14_FailFastAtConstruction ==
    /\ handler[Len(handler)] = "base"
    /\ \A task \in Tasks : ~Rejected(task)

(* C11.  In every call, the stages that handle the request are the stages  *)
(* of the chain from the outermost one down, each once and each called by  *)
(* the stage that wraps it.  The last of them produced the response        *)
(* without delegating: validation a 400, authentication a 401, rate        *)
(* limiting a 429, caching a stored response, the base handler its own;    *)
(* logging always delegates.  Every stage above the last delegated once:   *)
(* it is suspended in its own frame and the inherited one until the call   *)
(* it made log, so a rejected request has left no frame and no record  *)
(* below the stage that rejected it.                                       *)

\* The records of the stages that handled the request, in order.
Descent(task) ==
    SelectSeq(task.trace, LAMBDA ev : ev \notin {"logging.end", "cache.set"})

\* The record a stage leaves when it starts handling a request.
RecordOf(stage) == IF stage = "logging" THEN "logging.start" ELSE stage

\* The frames n delegating stages of the chain `this` are suspended in,
\* innermost first.
RECURSIVE FramesOf(_, _)
FramesOf(this, n) ==
    IF n = 0 THEN <<>>
    ELSE FramesOf(Tail(this), n - 1) \o <<Head(this) \o ".super", Head(this)>>

IsSuffix(p, q) ==
    /\ Len(p) <= Len(q)
    /\ \A i \in 1..Len(p) : p[i] = q[Len(q) - Len(p) + i]

C11_DelegatesOnceOrAnswers ==
    \A task \in Tasks :
        LET descent == Descent(task)
            n == Len(descent)
            last == descent[n]
        IN  /\ n \in 1..Len(handler)
            /\ \A i \in 1..n : descent[i] = RecordOf(handler[i])
            /\ IsSuffix(task.stack, FramesOf(handler, n - 1))
            /\ last = "validation" <=> task.response = R400
            /\ last = "authentication" <=> task.response = R401
            /\ last = "rateLimiting" <=> task.response = R429
            /\ last = "caching" =>
                    \E entry \in task.cached : task.response = entry.response
            /\ last = "base" <=> ~ServedFromCache(task) /\ task.response.status = 200
            /\ last # "logging.start"

\* A call answered by the caching stage, while a call that went down to
\* the base handler is still suspended in the frames of its stages.
C11_Witness ==
    /\ \E task \in Tasks :
        /\ Descent(task)[Len(Descent(task))] = "caching"
        /\ task.stack # <<>>
    /\ \E task \in Tasks :
        /\ Descent(task)[Len(Descent(task))] = "base"
        /\ Suspended(task, "caching")
        /\ ~Suspended(task, "logging")

(* C12.  The handler the callers hold is the chain Validation,            *)
(* Authentication, RateLimiting, Caching, Logging, BaseHandler, and no     *)
(* step changes it.  In every call the stages handle the request in this   *)
(* order, and a stage handles it only if every stage before it in the      *)
(* order has handled it and passed it on: validation a request that is     *)
(* valid, authentication one that carries a credential, rate limiting one  *)
(* it admitted, caching one it has no fresh entry for.                     *)

ReferenceOrder ==
    <<"validation", "authentication", "rateLimiting", "caching", "logging",
      "base">>

PassedBy(task, stage) ==
    CASE stage = "validation" -> Valid(task.request)
      [] stage = "authentication" -> Authorized(task.request)
      [] stage = "rateLimiting" -> task.response # R429
      [] stage = "caching" -> ~CacheFresh(task.cached, task.now)
      [] stage = "logging" -> TRUE

C12_Order ==
    /\ handler = ReferenceOrder
    /\ \A task \in Tasks :
        LET descent == Descent(task) IN
        /\ Len(descent) <= Len(ReferenceOrder)
        /\ \A i \in 1..Len(descent) :
            /\ descent[i] = RecordOf(ReferenceOrder[i])
            /\ \A j \in 1..(i - 1) : PassedBy(task, ReferenceOrder[j])

C12_FixedOrder == []C12_Order /\ [][handler' = handler]_vars

\* A request has gone through all six stages after an earlier one was
\* stopped by authentication.
C12_Witness ==
    /\ handler = ReferenceOrder
    /\ \E a, b \in Tasks :
        /\ a.id < b.id
        /\ Descent(a) = <<"validation", "authentication">>
        /\ Descent(b) = <<"validation", "authentication", "rateLimiting",
                          "caching", "logging.start", "base">>

(* C13.  No call of handle on the chain of createApiHandler throws or      *)
(* rejects its promise.  The response has status 200, 400, 401 or 429; a   *)
(* 400 is the response made by the validation stage, a 401 the one made by *)
(* authentication, a 429 the one made by rate limiting, and a 200 is the   *)
(* response the base handler made for this request or, replayed from the   *)
(* cache, the one it made for an earlier request with the same key.        *)

BaseResponse(request) ==
    [status |-> 200, body |-> [message |-> "Success", data |-> request.body]]

C13_ResponsesNotFaults ==
    /\ \A i \in 1..Len(calls) : calls[i].status \in {200, 400, 401, 429}
    /\ \A f \in fills : f.response.status = 200 /\ f.response.body.message = "Success"
    /\ \A task \in Tasks :
        LET descent == Descent(task)
            last == descent[Len(descent)]
        IN  /\ ~Rejected(task)
            /\ task.response.status \in {200, 400, 401, 429}
            /\ task.response.status = 400 => task.response = R400 /\ last = "validation"
            /\ task.response.status = 401 => task.response = R401 /\ last = "authentication"
            /\ task.response.status = 429 => task.response = R429 /\ last = "rateLimiting"
            /\ task.response.status = 200 =>
                \/ last = "base" /\ task.response = BaseResponse(task.request)
                \/ /\ last = "caching"
                   /\ \E f \in fills :
                        /\ f.id < task.id
                        /\ f.key = cacheKeyOf(task.request)
                        /\ f.response = task.response

\* A 429 has just been returned, after 200s from the base handler and from
\* the cache.
C13_Witness ==
    /\ \E task \in Tasks : task.response = R429 /\ Completed(task)
    /\ \E f \in fills : f.done
    /\ Cardinality({i \in 1..Len(calls) : calls[i].status = 200}) > Cardinality(fills)

(* C15.  A call the chain rejects with 400, 401 or 429 changes neither     *)
(* table, in the step that rejects it and in every later step of the call: *)
(* no timestamp is added to or pruned from a list, no cache entry is       *)
(* created, replaced or removed.  The rate-limit table changes only in the *)
(* step in which the rate-limiting stage passes a request, by the pruned   *)
(* list of that client with the timestamp of the request appended; the     *)
(* cache changes only when a call answered 200 comes back.                 *)

Rejections == {400, 401, 429}

\* This step is the synchronous descent of a new call.
Issued == Len(calls') = Len(calls) + 1

\* This step resumes or completes the call at the head of the queue.
Continued == mq # <<>> /\ Len(calls') = Len(calls) /\ mq' # mq

C15_Step ==
    /\ (Issued /\ calls'[Len(calls')].status \in Rejections) =>
            cache' = cache /\ requests' = requests
    /\ (Continued /\ Running.response.status \in Rejections) =>
            cache' = cache /\ requests' = requests
    /\ requests' # requests =>
        /\ Issued
        /\ LET e == calls'[Len(calls')]
               before == IF e.clientId \in DOMAIN requests
                         THEN requests[e.clientId] ELSE <<>>
           IN  /\ Admitted(e)
               /\ requests' = MapSet(requests, e.clientId,
                                Append(RecentRequests(before, e.time), e.time))
    /\ cache' # cache =>
        /\ Continued
        /\ Running.response.status = 200
        /\ Frame = "caching"

C15_RejectedLeavesTables == [][C15_Step]_vars

\* A request has been rejected with 429 and the list of its client is the
\* five timestamps admitted before it; the cache holds the entry it held.
C15_Witness ==
    \E task \in Tasks :
        /\ task.response = R429
        /\ Completed(task)
        /\ requests[clientIdOf(task.request)] = AdmittedTimes(clientIdOf(task.request))
        /\ Len(requests[clientIdOf(task.request)]) = maxRequests
        /\ DOMAIN cache # {}

(* C16.  On a fresh chain, the caller awaiting each call: the four         *)
(* requests of the demo in its order.  The first log 200 with its body *)
(* echoed, made by the base handler, and when it has returned the cache    *)
(* holds that response under the key "POST:/api/users".  The second,       *)
(* arriving less than 60 s after the entry was stored, log the same    *)
(* response from the cache: neither logging nor the base handler handles   *)
(* it.  The third, without authorization, log 401 and the fourth,      *)
(* without body, log 400.                                              *)

\* The calls made so far are the first ones of the demo.
FollowsDemo ==
    /\ Len(calls) <= Len(Demo)
    /\ \A i \in 1..Len(calls) :
        /\ calls[i].clientId = clientIdOf(Demo[i])
        /\ calls[i].valid = Valid(Demo[i])
        /\ calls[i].authorized = Authorized(Demo[i])
    /\ \A task \in Tasks : task.request = Demo[task.id]

C16_DemoScenario ==
    FollowsDemo =>
        /\ \A task \in Tasks :
            /\ task.id = 1 =>
                /\ task.response =
                     [status |-> 200,
                      body |-> [message |-> "Success", data |-> "John"]]
                /\ Descent(task) = <<"validation", "authentication",
                                     "rateLimiting", "caching", "logging.start",
                                     "base">>
                /\ Completed(task) =>
                    /\ "POST:/api/users" \in DOMAIN cache
                    /\ cache["POST:/api/users"].response = task.response
            /\ (/\ task.id = 2
                /\ \A entry \in task.cached : task.now - entry.timestamp < ttl) =>
                /\ task.response =
                     [status |-> 200,
                      body |-> [message |-> "Success", data |-> "John"]]
                /\ task.trace = <<"validation", "authentication",
                                  "rateLimiting", "caching">>
            /\ task.id = 3 => task.response = R401
            /\ task.id = 4 => task.response = R400
        /\ Len(calls) >= 2 =>
            /\ "POST:/api/users" \in DOMAIN cache
            /\ cache["POST:/api/users"].response =
                 [status |-> 200,
                  body |-> [message |-> "Success", data |-> "John"]]

\* The demo has run to its end: 200, 200 from the cache, 401, 400.
C16_Witness ==
    /\ FollowsDemo
    /\ Len(calls) = Len(Demo)
    /\ [i \in 1..Len(calls) |-> calls[i].status] = <<200, 200, 401, 400>>
    /\ Cardinality(fills) = 1
    /\ \E task \in Tasks : task.id = 4 /\ Completed(task)

(* C17.  The base handler answers every request with status 200 and the   *)
(* body {message: 'Success', data: <the request's body>}, whatever the     *)
(* tables hold and whatever calls came before; it delegates to no handler  *)
(* (it is the last stage to handle a request and leaves no frame), and it  *)
(* changes neither table: called on its own, both tables stay empty.       *)

C17_BaseHandlerTerminal ==
    /\ \A request \in Pool :
        LET s == [now |-> clock, cache |-> cache, requests |-> requests,
                  trace |-> <<>>, cached |-> {}]
            r == BasicHttpHandler(request, s)
        IN  /\ r.response = BaseResponse(request)
            /\ r.stack = <<>>
            /\ r.trace = <<"base">>
            /\ r.cache = cache
            /\ r.requests = requests
    /\ \A task \in Tasks :
        Observed(task, "base") =>
            /\ task.response = BaseResponse(task.request)
            /\ Count(task, "base") = 1
            /\ Descent(task)[Len(Descent(task))] = "base"
    /\ handler = <<"base">> =>
        /\ cache = EmptyMap
        /\ requests = EmptyMap
        /\ \A i \in 1..Len(calls) : calls[i].status = 200
        /\ \A task \in Tasks : task.trace = <<"base">> /\ Completed(task)

\* The base handler, called on its own, has answered two requests with
\* different bodies.
C17_Witness ==
    /\ handler = <<"base">>
    /\ \E a, b \in Tasks :
        /\ a.id < b.id
        /\ a.request.body # b.request.body
        /\ a.response.body.data = a.request.body
        /\ b.response.body.data = b.request.body

(* C18.  Of the calls of Singleton.getInstance, two return the same       *)
(* Process exactly when no destroy() was called between them: all calls    *)
(* between two destroys return one instance, and the first call after a    *)
(* destroy returns a new one, distinct from every instance discarded       *)
(* before, which the later calls return until the next destroy.  A Process *)
(* is created only by the first call after the start or after a destroy.   *)

Gets == {i \in 1..Len(returns) : returns[i].op = "getInstance"}

DestroyedBetween(i, j) == \E k \in (i + 1)..(j - 1) : returns[k].op = "destroy"

C18_InitializesOnce ==
    /\ \A i \in Gets : Cardinality(returns[i].result) = 1
    /\ \A i, j \in Gets :
        i < j => (returns[i].result = returns[j].result <=> ~DestroyedBetween(i, j))
    /\ processes = Cardinality({returns[i].result : i \in Gets})
    /\ instance = IF returns = <<>> THEN {} ELSE returns[Len(returns)].result

\* Two calls returned one instance, it was destroyed, and the next two
\* calls returned another.
C18_Witness ==
    /\ Len(returns) >= 5
    /\ [i \in 1..5 |-> returns[i].op] =
         <<"getInstance", "getInstance", "destroy", "getInstance", "getInstance">>
    /\ returns[1].result = returns[2].result
    /\ returns[4].result = returns[5].result
    /\ returns[4].result # returns[1].result
    /\ processes = 2

(* C19.  Every call of handle completes, and completes once: its promise  *)
(* is settled exactly once with the response decided in the descent, every *)
(* stage that delegated is resumed once (its frames are on the stack of    *)
(* the call once, and are gone when the call completes), and no call stays *)
(* pending forever, however the continuations of the calls in flight       *)
(* interleave.                                                             *)

HasDuplicates(seq) == \E i, j \in 1..Len(seq) : i # j /\ seq[i] = seq[j]

Pending(i) == \E task \in Tasks : task.id = i

C19_AtMostOnce ==
    /\ \A i, j \in 1..Len(mq) : i # j => mq[i].id # mq[j].id
    /\ \A task \in Tasks :
        /\ task.id \in 1..Len(calls)
        /\ ~HasDuplicates(task.stack)
        /\ task.response.status = calls[task.id].status
        /\ Count(task, "logging.end") <= 1
        /\ Count(task, "cache.set") <= 1
    /\ \A i \in 1..Len(calls) :
        calls[i].settled = IF Pending(i) THEN 0 ELSE 1

Settled(i) == i <= Len(calls) /\ calls[i].settled = 1 /\ ~Pending(i)

C19_Completes ==
    \A i \in 1..MaxCalls : (Len(calls) >= i) ~> Settled(i)

C19_EveryCallCompletesOnce == []C19_AtMostOnce /\ C19_Completes

\* One call has completed while two others are in flight, both suspended.
C19_Witness ==
    /\ \E f \in fills : f.done /\ calls[f.id].settled = 1
    /\ Len(mq) = 2
    /\ \A task \in Tasks : Suspended(task, "caching")

(* C20.  The cache is keyed by method and path alone.  Every stored        *)
(* response is held under the key "<method>:<path>" of the request it was  *)
(* made for, and a request that reaches the caching stage when the entry   *)
(* under the key of its own method and path is less than 60000 ms old      *)
(* receives that entry's response - the body echoed for the earlier        *)
(* request included - and is not handled by the base handler, whatever its *)
(* own body, authorization value and clientId.                             *)

MethodAndPath(request) == request.method \o ":" \o request.path

C20_Keys ==
    /\ \A f \in fills : MethodAndPath(f.request) \in DOMAIN cache
    /\ \A k \in DOMAIN cache :
        \E f \in fills :
            /\ MethodAndPath(f.request) = k
            /\ f.response = cache[k].response
            /\ f.storedAt = cache[k].timestamp
            /\ cache[k].response.body.data = f.request.body

C20_Step ==
    Issued =>
        LET task == mq'[Len(mq')]
            k == MethodAndPath(task.request)
        IN  (/\ Observed(task, "caching")
             /\ k \in DOMAIN cache
             /\ task.now - cache[k].timestamp < ttl) =>
                /\ task.response = cache[k].response
                /\ ~Observed(task, "base")

C20_KeyIsMethodAndPath == []C20_Keys /\ [][C20_Step]_vars

\* A request has received the response made for a request of another
\* client, with another body and another authorization value.
C20_Witness ==
    \E task \in Tasks, f \in fills :
        /\ f.id < task.id
        /\ ServedFromCache(task)
        /\ task.response = f.response
        /\ task.response.body.data = f.request.body
        /\ f.request.body # task.request.body
        /\ f.request.authorization # task.request.authorization
        /\ f.request.clientId # task.request.clientId

(* C21.  A request served from the cache has taken a rate-limit slot of    *)
(* its client: rate limiting handled it and recorded its timestamp before  *)
(* the caching stage was consulted, so it counts in the window of its      *)
(* client and its timestamp is in the client's list.  Of six valid         *)
(* requests of a client within 60 s the sixth returns 429, also when the   *)
(* second to fifth were answered from the cache.                           *)

\* The entries of the list stored for client c that equal t.
SlotsAt(c, t) == {j \in 1..Len(requests[c]) : requests[c][j] = t}

\* The admitted calls of client c made at t.
AdmittedAt(c, t) ==
    {i \in 1..Len(calls) :
        calls[i].clientId = c /\ Admitted(calls[i]) /\ calls[i].time = t}

C21_CacheHitTakesSlot ==
    /\ \A task \in Tasks :
        ServedFromCache(task) =>
            LET c == clientIdOf(task.request) IN
            /\ Observed(task, "rateLimiting")
            /\ Position(task, "rateLimiting") < Position(task, "caching")
            /\ task.id \in InWindow(c, task.now)
            /\ c \in DOMAIN requests
            /\ clock - task.now < windowMs =>
                Cardinality(SlotsAt(c, task.now)) =
                    Cardinality(AdmittedAt(c, task.now))
    /\ \A c \in Clients :
        LET log == RateLog(c) IN
        (Len(log) >= 6 /\ log[6].time - log[1].time < windowMs) =>
            log[6].status = 429

\* One request went down to the base handler, four were answered from the
\* cache, and the sixth is answered 429.
C21_Witness ==
    /\ Len(calls) = 6
    /\ Cardinality(fills) = 1
    /\ \A i \in 1..5 : calls[i].status = 200
    /\ calls[6].status = 429
    /\ calls[6].time - calls[1].time < windowMs
    /\ \E task \in Tasks : task.id = 5 /\ ServedFromCache(task)

(* C22.  Every response in the cache, and every response ever stored in   *)
(* it, has status 200.  A call answered 400, 401 or 429 never reaches the  *)
(* caching stage's store: it has no caching frame and stores nothing; and  *)
(* a response replayed from the cache has status 200.                      *)

C22_OnlySuccessCached ==
    /\ \A k \in DOMAIN cache : cache[k].response.status = 200
    /\ \A f \in fills : f.response.status = 200
    /\ \A task \in Tasks :
        /\ task.response.status \in Rejections =>
            /\ ~Suspended(task, "caching")
            /\ ~Observed(task, "cache.set")
            /\ \A f \in fills : f.id # task.id
        /\ ServedFromCache(task) => task.response.status = 200
        /\ \A entry \in task.cached : entry.response.status = 200

\* Requests were rejected with 400 and 401 while the cache held an entry
\* that had been replayed.
C22_Witness ==
    /\ DOMAIN cache # {}
    /\ \E i \in 1..Len(calls) : calls[i].status = 400
    /\ \E i \in 1..Len(calls) : calls[i].status = 401
    /\ \E task \in Tasks : task.response.status \in Rejections /\ Completed(task)
    /\ Cardinality({i \in 1..Len(calls) : calls[i].status = 200}) >= 2

(* C23.  Each client identifier has its own list.  A request is rejected   *)
(* with 429 exactly when five requests admitted for the same identifier    *)
(* lie less than 60 s before it, whatever was admitted for other           *)
(* identifiers; and the requests without client identifier or with an      *)
(* empty one are counted together under 'anonymous'.                       *)

\* The bucket the claim assigns to a request.
BucketOf(request) ==
    IF request.clientId \in {undefined, ""} THEN "anonymous"
    ELSE request.clientId

\* The calls before the i-th that were admitted for bucket c less than
\* 60 s before it.
AdmittedBefore(c, i) ==
    {j \in 1..(i - 1) :
        /\ calls[j].clientId = c
        /\ Admitted(calls[j])
        /\ calls[i].time - calls[j].time < windowMs}

C23_BucketsIndependent ==
    /\ \A task \in Tasks : calls[task.id].clientId = BucketOf(task.request)
    /\ \A i \in 1..Len(calls) :
        (calls[i].valid /\ calls[i].authorized) =>
            (calls[i].status = 429 <=>
                Cardinality(AdmittedBefore(calls[i].clientId, i)) >= maxRequests)
    /\ \A c \in DOMAIN requests :
        \A j \in 1..Len(requests[c]) :
            \E i \in 1..Len(calls) :
                /\ calls[i].clientId = c
                /\ Admitted(calls[i])
                /\ calls[i].time = requests[c][j]

\* The anonymous bucket is full and a request of client-1 is admitted.
C23_Witness ==
    /\ "anonymous" \in DOMAIN requests
    /\ Len(requests["anonymous"]) = maxRequests
    /\ \E task \in Tasks :
        /\ task.request.clientId = "client-1"
        /\ task.response.status = 200
        /\ Cardinality(AdmittedBefore("anonymous", task.id)) = maxRequests
    /\ Len(AdmittedTimes("client-1")) = 1

(* C24.  A call served from the cache changes the cache in none of its     *)
(* steps.  The cache changes only when a call that went to the base        *)
(* handler comes back: the entry of its key is then set, stamped with the  *)
(* time of that moment, so every timestamp in the cache is the time of a   *)
(* store after a miss.  A request that finds an entry stored 60000 ms or   *)
(* more before goes to the base handler, whatever hits came in between.    *)

C24_Expiry ==
    /\ \A k \in DOMAIN cache :
        \E f \in fills : f.key = k /\ f.storedAt = cache[k].timestamp
    /\ \A f \in fills : calls[f.id].status = 200
    /\ \A task \in Tasks :
        /\ Observed(task, "cache.set") => Observed(task, "base")
        /\ (/\ Observed(task, "caching")
            /\ \E entry \in task.cached : task.now - entry.timestamp >= ttl) =>
                Observed(task, "base")

C24_Step ==
    /\ (Issued /\ ServedFromCache(mq'[Len(mq')])) => cache' = cache
    /\ (Continued /\ ServedFromCache(Running)) => cache' = cache
    /\ cache' # cache =>
        /\ Continued
        /\ Frame = "caching"
        /\ Observed(Running, "base")
        /\ cache'[cacheKeyOf(Running.request)].timestamp = clock'
        /\ \A k \in DOMAIN cache :
            k # cacheKeyOf(Running.request) => cache'[k] = cache[k]

C24_HitsDoNotExtend == []C24_Expiry /\ [][C24_Step]_vars

\* An entry stored at 0 was replayed at 30000, and the request arriving at
\* 60000 has gone to the base handler.
C24_Witness ==
    /\ Len(calls) = 3
    /\ calls[2].status = 200
    /\ calls[2].time = ttl \div 2
    /\ \E f \in fills : f.id = 1 /\ f.storedAt = 0
    /\ \A f \in fills : f.id # 2
    /\ \E task \in Tasks :
        /\ task.id = 3
        /\ task.now = ttl
        /\ \E entry \in task.cached : entry.timestamp = 0
        /\ Observed(task, "base")

----------------------------------------------------------------------------
(* C25.  An Order starts in Pending, and every call of process, cancel,    *)
(* ship or deliver moves it as the table says: process in Pending gives    *)
(* Processing, cancel in Pending or Processing gives Cancelled, ship in    *)
(* Processing gives Shipped, deliver in Shipped gives Delivered, and every *)
(* other pair leaves the state as it was; the state is always one of the   *)
(* five named states.                                                      *)

OrderStates == {"PendingState", "ProcessingState", "ShippedState",
                "DeliveredState", "CancelledState"}

\* The state changes the claim lists.
Table(from, op) ==
    CASE from = "PendingState"    /\ op = "process" -> "ProcessingState"
      [] from = "PendingState"    /\ op = "cancel"  -> "CancelledState"
      [] from = "ProcessingState" /\ op = "ship"    -> "ShippedState"
      [] from = "ProcessingState" /\ op = "cancel"  -> "CancelledState"
      [] from = "ShippedState"    /\ op = "deliver" -> "DeliveredState"
      [] OTHER -> from

\* The state the order had before its k-th operation.
Before(id, k) == IF k = 1 THEN "PendingState" ELSE applied[id][k - 1].to

\* The state the order has after all the operations applied so far.
Current(id) ==
    IF applied[id] = <<>> THEN "PendingState"
    ELSE applied[id][Len(applied[id])].to

C25_FiveStateMachine ==
    \A id \in OrderIds :
        /\ getState(state, id) \in OrderStates
        /\ getState(state, id) = Current(id)
        /\ \A k \in 1..Len(applied[id]) :
               /\ applied[id][k].from = Before(id, k)
               /\ applied[id][k].to = Table(applied[id][k].from, applied[id][k].op)

\* One order was processed, shipped and delivered, and the other was
\* cancelled and then asked to ship, which changed nothing.
C25_Witness ==
    /\ Len(applied["ORD-001"]) = 3
    /\ state["ORD-001"] = "DeliveredState"
    /\ Len(applied["ORD-002"]) >= 2
    /\ applied["ORD-002"][1].to = "CancelledState"
    /\ applied["ORD-002"][2].op = "ship"
    /\ applied["ORD-002"][2].to = "CancelledState"

(* C26.  For every sequence of operations on an order: once the order is   *)
(* Delivered or Cancelled its state never changes again; an order is       *)
(* Delivered only if process, ship and deliver each changed its state, in  *)
(* that order; an order that has been Shipped is never Cancelled later.    *)

\* The k-th operation on the order was op and changed its state.
Succeeded(id, k, op) ==
    /\ applied[id][k].op = op
    /\ applied[id][k].from # applied[id][k].to

C26_TerminalAndOrdered ==
    \A id \in OrderIds :
        LET n == Len(applied[id]) IN
        /\ \A i \in 1..n : \A j \in i..n :
               /\ applied[id][i].to \in {"DeliveredState", "CancelledState"}
                     => applied[id][j].to = applied[id][i].to
               /\ applied[id][i].to = "ShippedState"
                     => applied[id][j].to # "CancelledState"
        /\ state[id] = "DeliveredState"
              => \E i \in 1..n : \E j \in (i + 1)..n : \E k \in (j + 1)..n :
                    /\ Succeeded(id, i, "process")
                    /\ Succeeded(id, j, "ship")
                    /\ Succeeded(id, k, "deliver")

\* A delivered order was asked to cancel, a cancelled order was asked to
\* process, and a shipped order was asked to cancel.
C26_Witness ==
    /\ Len(applied["ORD-001"]) = 4
    /\ applied["ORD-001"][3].to = "DeliveredState"
    /\ applied["ORD-001"][4].op = "cancel"
    /\ Len(applied["ORD-002"]) = 4
    /\ applied["ORD-002"][2].to = "ShippedState"
    /\ applied["ORD-002"][3].op = "cancel"
    /\ applied["ORD-002"][4].op = "process"

(* C27.  processQueue takes the commands in the order in which they were   *)
(* added and executes each once; when it returns the queue is empty and    *)
(* every command added before has been executed; a command is pushed on    *)
(* the history, once and in the order of completion, exactly if its        *)
(* execute did not throw; a command whose execute throws is caught, is     *)
(* neither retried nor pushed, and the commands after it are executed.     *)

\* The entries of one kind, in order.
Journal(op) == SelectSeq(journal, LAMBDA e : e.op = op)

\* The number of entries of one kind among the first k.
CountBefore(op, k) == Cardinality({j \in 1..(k - 1) : journal[j].op = op})

CountFor(op, id) ==
    Cardinality({j \in 1..Len(journal) : journal[j].op = op /\ journal[j].id = id})

\* The ids a history holds after the first k entries of the journal, if a
\* push appends and an undoLast removes the newest.
RECURSIVE Pushed(_)
Pushed(k) ==
    IF k = 0 THEN <<>>
    ELSE LET hist == Pushed(k - 1) IN
         CASE journal[k].op = "push" -> Append(hist, journal[k].id)
           [] journal[k].op = "undoLast" /\ hist # <<>> ->
                 SubSeq(hist, 1, Len(hist) - 1)
           [] OTHER -> hist

InExecute(id) == \E run \in running : run.command.id = id

C27_FifoOnceAndPushed ==
    /\ \A k \in 1..Len(Journal("shift")) : Journal("shift")[k].id = k
    /\ \A k \in Entries("return") :
           /\ journal[k].pending = 0
           /\ CountBefore("shift", k) = CountBefore("addCommand", k)
    /\ \A k \in Entries("shift") :
           LET id == journal[k].id
               pushes == CountFor("push", id)
               catches == CountFor("catch", id)
           IN /\ IF journal[k].class = "Failing"
                 THEN pushes = 0 /\ catches <= 1
                 ELSE catches = 0 /\ pushes <= 1
              /\ ~InExecute(id) => pushes + catches = 1
    /\ [i \in 1..Len(history) |-> history[i].id] = Pushed(Len(journal))

\* One call of processQueue executed three commands, the second of which
\* threw, and returned: the first and the third are the history.
C27_Witness ==
    /\ Len(journal) >= 1
    /\ journal[Len(journal)].op = "return"
    /\ Len(Journal("processQueue")) = 1
    /\ Len(Journal("shift")) = 3
    /\ Journal("shift")[2].class = "Failing"
    /\ Len(history) = 2
    /\ history[1].id = 1
    /\ history[2].id = 3

(* C28.  undoLast removes from the history the command pushed last that is *)
(* still in it, and calls the undo of that command if the command defines  *)
(* one; successive calls therefore undo in the reverse of the order of the *)
(* pushes, no command twice; with the history empty undoLast calls no undo *)
(* and leaves the queue, the history and the users as they are.            *)

\* The place of the push of a command in the journal.
PushOf(id) == CHOOSE k \in Entries("push") : journal[k].id = id

C28_Undone ==
    /\ \A k \in Entries("undoLast") :
           LET hist == Pushed(k - 1) IN
           /\ journal[k].id = IF hist = <<>> THEN 0 ELSE hist[Len(hist)]
           /\ journal[k].id # 0 => CountFor("undoLast", journal[k].id) = 1
           /\ (journal[k].id # 0 /\ journal[k].class # "Plain")
                 <=> /\ k < Len(journal)
                     /\ journal[k + 1].op = "undo"
                     /\ journal[k + 1].id = journal[k].id
           /\ \A j \in Entries("undoLast") :
                  (/\ j < k
                   /\ journal[j].id # 0
                   /\ journal[k].id # 0
                   /\ \A m \in j..k : journal[m].op # "push")
                      => PushOf(journal[k].id) < PushOf(journal[j].id)
    /\ \A k \in Entries("undo") :
           /\ k > 1
           /\ journal[k - 1].op = "undoLast"
           /\ journal[k - 1].id = journal[k].id
           /\ CountFor("undo", journal[k].id) = 1

\* A call of undoLast that finds the history empty changes nothing.
C28_Step ==
    (/\ history = <<>>
     /\ journal' # journal
     /\ journal'[Len(journal')].op = "undoLast")
        => UNCHANGED <<commands, history, users, running>>

C28_UndoLast == []C28_Undone /\ [][C28_Step]_vars

\* Two commands were pushed and both were undone, the second first.
C28_Witness ==
    /\ Len(Journal("push")) = 2
    /\ Len(Journal("undoLast")) = 2
    /\ Len(Journal("undo")) = 2
    /\ Journal("undo")[1].id = 2
    /\ Journal("undo")[2].id = 1

(* C29.  Undo is the inverse of execute on the user store: when            *)
(* CreateUserCommand, UpdateUserCommand or DeleteUserCommand has been      *)
(* executed by processQueue and is undone by undoLast, nothing else having *)
(* changed the users in between, the users are what they were before the   *)
(* command was executed, whether its email was present or not.             *)

\* The entry of the step in which execute changed the users: the first
\* part of execute for CreateUserCommand, the part after getUser for the
\* other two.
EffectOf(id) ==
    CHOOSE k \in 1..Len(journal) :
        /\ journal[k].id = id
        /\ \/ journal[k].op = "execute"
           \/ journal[k].op = "shift" /\ journal[k].class = "CreateUserCommand"

\* No step between the two entries changed the users.
Undisturbed(j, k) ==
    \A m \in (j + 1)..(k - 1) : journal[m].before = journal[m].after

\* Nothing ran between the call of getUser and the rest of execute.
Uninterrupted(j) ==
    journal[j].op = "execute"
        => journal[j - 1].op = "shift" /\ journal[j - 1].id = journal[j].id

C29_UndoInvertsExecute ==
    \A k \in Entries("undo") :
        LET j == EffectOf(journal[k].id) IN
        (Uninterrupted(j) /\ Undisturbed(j, k))
            => journal[k].after = journal[j].before

(* C30.  notify(event, data) calls update(event, data) on every observer   *)
(* attached at that moment, in the order of the attachments and once for   *)
(* each attachment; after detach(o) the observer o is called by no         *)
(* notification until it is attached again, whatever number of times it    *)
(* was attached; detaching an observer that is not attached leaves the     *)
(* list as it is.                                                          *)

\* The attachments in force after the first k calls, in their order: an
\* attach adds one at the end, a detach ends all those of its observer.
RECURSIVE Attachments(_)
Attachments(k) ==
    IF k = 0 THEN <<>>
    ELSE LET before == Attachments(k - 1) IN
         CASE events[k].op = "attach" -> Append(before, events[k].observer)
           [] events[k].op = "detach" ->
                 SelectSeq(before, LAMBDA o : o # events[k].observer)
           [] OTHER -> before

\* The list the emitter held before its k-th call.
ListBefore(k) == IF k = 1 THEN <<>> ELSE events[k - 1].list

Called(k, o) == \E i \in 1..Len(events[k].updates) : events[k].updates[i].observer = o

C30_NotifiesAttachments ==
    \A k \in 1..Len(events) :
        /\ events[k].op = "notify" =>
              /\ Len(events[k].updates) = Len(Attachments(k - 1))
              /\ \A i \in 1..Len(events[k].updates) :
                     events[k].updates[i] =
                        [observer |-> Attachments(k - 1)[i],
                         event |-> events[k].event, data |-> events[k].data]
        /\ events[k].op = "detach" =>
              /\ \A m \in (k + 1)..Len(events) :
                     (/\ events[m].op = "notify"
                      /\ \A j \in k..m : ~(/\ events[j].op = "attach"
                                             /\ events[j].observer = events[k].observer))
                        => ~Called(m, events[k].observer)
              /\ (\A i \in 1..Len(ListBefore(k)) :
                        ListBefore(k)[i] # events[k].observer)
                    => events[k].list = ListBefore(k)

\* An observer attached twice after another one was called twice by a
\* notification, after the other; it was detached, and the next
\* notification called only the other.
C30_Witness ==
    /\ Len(events) = 6
    /\ events[1].op = "attach"
    /\ events[2].op = "attach"
    /\ events[2].observer # events[1].observer
    /\ events[3].op = "attach"
    /\ events[3].observer = events[2].observer
    /\ events[4].op = "notify"
    /\ Len(events[4].updates) = 3
    /\ events[5].op = "detach"
    /\ events[5].observer = events[2].observer
    /\ events[6].op = "notify"
    /\ Len(events[6].updates) = 1

====
